---- MODULE Spec2Model ----
(***************************************************************************)
(* A model of sandboxer's container lifecycle: the `run` command of        *)
(* src/sandboxer/cli.py and the engine adapter of src/sandboxer/container.py*)
(* acting on the container engine's store.                                  *)
(*                                                                         *)
(* Python strings are modelled as sequences of one-character strings, so   *)
(* that formatting (the engine's `ps` output, the label map) and parsing   *)
(* (split, startswith, slicing) are computed the way the code computes     *)
(* them.                                                                   *)
(*                                                                         *)
(* Five specifications: Spec, the run command with stop and rm typed       *)
(* beside it; AutoNameSpec, the same with no --name ever passed;           *)
(* ConcurrentSpec, two terminals running the command on one folder;        *)
(* AdapterSpec, the adapter's functions called directly, as the            *)
(* integration tests call them; FunctionSpec, the adapter's pure functions *)
(* and the firewall scripts applied to bounded inputs.                     *)
(*                                                                         *)
(* cli.py passes engine=, expose_ports= and ports= keywords to the adapter;*)
(* the adapter under src/ takes none of them and always invokes podman.    *)
(* The model follows the adapter: the keywords have no effect on the       *)
(* engine calls.                                                           *)
(***************************************************************************)
EXTENDS Integers, Sequences, FiniteSets, TLC

\* ------------------------------------------------------------------ bounds

\* The number of containers the engine creates in one behaviour.
MaxIds == 2

\* ------------------------------------------------------- string primitives

Min(a, b) == IF a <= b THEN a ELSE b

\* s[:n]
Take(s, n) == SubSeq(s, 1, Min(n, Len(s)))

\* s[n:]
Drop(s, n) == SubSeq(s, Min(n, Len(s)) + 1, Len(s))

\* s.startswith(p)
StartsWith(s, p) == Len(p) <= Len(s) /\ SubSeq(s, 1, Len(p)) = p

\* s.endswith(p)
EndsWith(s, p) == Len(p) <= Len(s) /\ SubSeq(s, Len(s) - Len(p) + 1, Len(s)) = p

\* sub in s
StrIn(sub, s) == \E i \in 1..(Len(s) - Len(sub) + 1) : SubSeq(s, i, i + Len(sub) - 1) = sub

UpperChars == <<"A", "B", "C", "D", "E", "F", "G", "H", "I", "J", "K", "L", "M", "N", "O", "P", "Q", "R", "S", "T", "U", "V", "W", "X", "Y", "Z">>

LowerChars == <<"a", "b", "c", "d", "e", "f", "g", "h", "i", "j", "k", "l", "m", "n", "o", "p", "q", "r", "s", "t", "u", "v", "w", "x", "y", "z">>

LowerOf == [c \in {UpperChars[i] : i \in 1..Len(UpperChars)} |->
               LowerChars[CHOOSE i \in 1..Len(UpperChars) : UpperChars[i] = c]]

LowerChar(c) == IF c \in DOMAIN LowerOf THEN LowerOf[c] ELSE c

\* s.lower()
StrLower(s) == [i \in 1..Len(s) |-> LowerChar(s[i])]

\* The index of the first occurrence of character c in s, 0 when there is none.
IndexOf(s, c) == LET at == {i \in 1..Len(s) : s[i] = c}
                 IN  IF at = {} THEN 0 ELSE CHOOSE i \in at : \A j \in at : i <= j

RECURSIVE StrSplit(_, _)
\* s.split(c), c a single character: always at least one field.
StrSplit(s, c) == LET i == IndexOf(s, c)
                  IN  IF i = 0 THEN <<s>>
                      ELSE <<SubSeq(s, 1, i - 1)>> \o StrSplit(Drop(s, i), c)

\* s.split(c, 1)
StrSplit1(s, c) == LET i == IndexOf(s, c)
                   IN  IF i = 0 THEN <<s>> ELSE <<SubSeq(s, 1, i - 1), Drop(s, i)>>

Whitespace == {" ", "\n", "\t"}

RECURSIVE LStrip(_)
LStrip(s) == IF s # <<>> /\ Head(s) \in Whitespace THEN LStrip(Tail(s)) ELSE s

RECURSIVE RStrip(_)
RStrip(s) == IF s # <<>> /\ s[Len(s)] \in Whitespace THEN RStrip(SubSeq(s, 1, Len(s) - 1)) ELSE s

\* s.strip()
StrStrip(s) == RStrip(LStrip(s))

RECURSIVE StrJoin(_, _)
\* sep.join(parts)
StrJoin(parts, sep) == IF parts = <<>> THEN <<>>
                       ELSE IF Len(parts) = 1 THEN parts[1]
                       ELSE parts[1] \o sep \o StrJoin(Tail(parts), sep)

\* ---------------------------------------------------------------- constants

DEFAULT_IMAGE == "docker.io/rdubwiley/sandboxer"

MOUNT_TARGET == "/home/developer/project"

LABEL_MANAGED == <<"c", "o", "m", ".", "s", "a", "n", "d", "b", "o", "x", "e", "r", ".", "m", "a", "n", "a", "g", "e", "d">>

LABEL_MOUNTED_PATH == <<"c", "o", "m", ".", "s", "a", "n", "d", "b", "o", "x", "e", "r", ".", "m", "o", "u", "n", "t", "e", "d", "-", "p", "a", "t", "h">>

StrTrue == <<"t", "r", "u", "e">>

\* Python's None / a value: <<>> is None, <<v>> is the value v.
None == <<>>

Some(v) == <<v>>

\* ------------------------------------------------------------------- inputs

\* Resolved absolute folder paths; the second has a space in a parent directory.
FolderA == <<"/", "w", "/", "a", "p", "p">>

FolderB == <<"/", "m", "y", " ", "w", "/", "a", "p", "p">>

Folders == {FolderA, FolderB}

\* Two more for generate_container_name: a hyphen in the last component, and
\* the root, whose last component is empty.
FolderC == <<"/", "w", "/", "m", "y", "-", "a", "p", "p">>

FolderRoot == <<"/">>

NameFolders == Folders \cup {FolderC, FolderRoot}

\* --name is absent (None) or an explicit name.
NameBox == <<"b", "o", "x">>

NameOptions == {None, Some(NameBox)}

EngineOptions == {"podman", "docker", "lxc"}

\* ------------------------------------------------------------------- naming

\* Path.name: the last component of the path.
PathName(path) == LET parts == StrSplit(path, "/") IN parts[Len(parts)]

\* hashlib.sha256(str(folder_path).encode()).hexdigest()[:8], tabulated for
\* the folders of the model (the digests are those of the real function).
Sha256Hex8(path) ==
    CASE path = FolderA -> <<"e", "c", "e", "9", "3", "7", "1", "b">>
      [] path = FolderB -> <<"6", "e", "9", "c", "4", "5", "4", "6">>
      [] path = FolderC -> <<"c", "d", "c", "d", "b", "b", "0", "b">>
      [] path = FolderRoot -> <<"8", "a", "5", "e", "d", "a", "b", "2">>

\* generate_container_name formatting the whole path into the name.
generate_container_name_whole_path(folder_path) ==
    <<"s", "a", "n", "d", "b", "o", "x", "e", "r", "-">>
        \o folder_path \o <<"-">> \o Sha256Hex8(folder_path)

generate_container_name(folder_path) ==
    <<"s", "a", "n", "d", "b", "o", "x", "e", "r", "-">>
        \o PathName(folder_path) \o <<"-">> \o Sha256Hex8(folder_path)

\* ------------------------------------------------------- the container engine

\* The engine's full container id (longer than the 12 characters that `ps`
\* prints), one per container ever created.
FullId(i) == <<"c", "0", "f", "f", "e", "e">> \o <<ToString(i)>> \o <<"0", "0", "0", "0", "0", "a", "b", "c", "d">>

\* The status text the engine prints for a container's state.
EngineStatus(state) ==
    CASE state = "running" -> <<"U", "p", " ", "2", " ", "m", "i", "n", "u", "t", "e", "s">>
      [] state = "exited"  -> <<"E", "x", "i", "t", "e", "d", " ", "(", "0", ")", " ", "2", " ", "m", "i", "n", "u", "t", "e", "s", " ", "a", "g", "o">>
      [] state = "created" -> <<"C", "r", "e", "a", "t", "e", "d">>

\* {{.Labels}}: map[key:value key2:value2 ...], keys in sorted order.
FormatLabels(labels) ==
    <<"m", "a", "p", "[">>
        \o StrJoin([i \in 1..Len(labels) |-> labels[i][1] \o <<":">> \o labels[i][2]], <<" ">>)
        \o <<"]">>

\* --filter label=key=value
HasLabel(c, key, value) == \E i \in 1..Len(c.labels) : c.labels[i] = <<key, value>>

\* One line of `ps --format {{.ID}}|{{.Names}}|{{.Status}}|{{.Labels}}`.
PsLine(c) == Take(FullId(c.id), 12) \o <<"|">> \o c.name \o <<"|">>
                 \o EngineStatus(c.state) \o <<"|">> \o FormatLabels(c.labels)

RECURSIVE NewestFirst(_)
\* The containers of a set, newest (greatest id) first, as `ps` lists them.
NewestFirst(cs) == IF cs = {} THEN <<>>
                   ELSE LET c == CHOOSE x \in cs : \A y \in cs : y.id <= x.id
                        IN  <<c>> \o NewestFirst(cs \ {c})

\* The name the engine gives a container created without --name.
EngineAutoName(id) == <<"a", "u", "t", "o">> \o <<ToString(id)>>

\* ------------------------------------------------------------ engine adapter

\* list_containers_cmd without its --filter argument.
list_containers_cmd_unfiltered(running_only) ==
    [filter |-> None, all |-> ~running_only]

\* list_containers_cmd passing -a whatever running_only is.
list_containers_cmd_always_all(running_only) ==
    [filter |-> Some(<<LABEL_MANAGED, StrTrue>>), all |-> TRUE]

\* The `ps` command line list_containers builds.
list_containers_cmd(running_only) ==
    [filter |-> Some(<<LABEL_MANAGED, StrTrue>>), all |-> ~running_only]

\* The engine's answer to a `ps` command line: one line per container shown.
PodmanPs(st, cmd) ==
    LET shown == {c \in st : /\ cmd.filter # None => HasLabel(c, cmd.filter[1][1], cmd.filter[1][2])
                             /\ ~cmd.all => c.state = "running"}
        lines == NewestFirst(shown)
    IN  StrJoin([i \in 1..Len(lines) |-> PsLine(lines[i]) \o <<"\n">>], <<>>)

\* f"{LABEL_MOUNTED_PATH}:", the prefix of the mounted-path field.
MountedPathKey == LABEL_MOUNTED_PATH \o <<":">>

\* ParseMountedPath slicing the blob as labels[4:], closing bracket included.
ParseMountedPath_keeps_bracket(labels) ==
    IF StartsWith(labels, <<"m", "a", "p", "[">>) /\ EndsWith(labels, <<"]">>)
    THEN LET labels_content == SubSeq(labels, 5, Len(labels))
             fields == StrSplit(labels_content, " ")
             hits == {i \in 1..Len(fields) : StartsWith(fields[i], MountedPathKey)}
         IN  IF hits = {} THEN <<>>
             ELSE LET first == CHOOSE i \in hits : \A j \in hits : i <= j
                  IN  StrSplit1(fields[first], ":")[2]
    ELSE <<>>

\* The mounted-path value of a {{.Labels}} blob, "" if absent or unparseable.
ParseMountedPath(labels) ==
    IF StartsWith(labels, <<"m", "a", "p", "[">>) /\ EndsWith(labels, <<"]">>)
    THEN LET labels_content == SubSeq(labels, 5, Len(labels) - 1)
             fields == StrSplit(labels_content, " ")
             hits == {i \in 1..Len(fields) : StartsWith(fields[i], MountedPathKey)}
         IN  IF hits = {} THEN <<>>
             ELSE LET first == CHOOSE i \in hits : \A j \in hits : i <= j
                  IN  StrSplit1(fields[first], ":")[2]
    ELSE <<>>

RECURSIVE ParseLines_break(_)
\* ParseLines leaving the loop at the first line it cannot use.
ParseLines_break(lines) ==
    IF lines = <<>> THEN <<>>
    ELSE LET line == Head(lines)
             parts == StrSplit(line, "|")
         IN  IF line = <<>> \/ Len(parts) < 4 THEN <<>>
             ELSE <<[id           |-> Take(parts[1], 12),
                     name         |-> parts[2],
                     status       |-> parts[3],
                     mounted_path |-> ParseMountedPath(parts[4])]>>
                      \o ParseLines_break(Tail(lines))

RECURSIVE ParseLines(_)
\* The loop of list_containers over the lines of the engine's output.
ParseLines(lines) ==
    IF lines = <<>> THEN <<>>
    ELSE LET line == Head(lines)
             parts == StrSplit(line, "|")
         IN  IF line = <<>> \/ Len(parts) < 4 THEN ParseLines(Tail(lines))
             ELSE <<[id           |-> Take(parts[1], 12),
                     name         |-> parts[2],
                     status       |-> parts[3],
                     mounted_path |-> ParseMountedPath(parts[4])]>>
                      \o ParseLines(Tail(lines))

\* list_containers on the engine's result (returncode, stdout).
ParsePs(returncode, stdout) ==
    IF returncode # 0 THEN <<>> ELSE ParseLines(StrSplit(StrStrip(stdout), "\n"))

\* list_containers(running_only) against the store; ps_rc is the engine's
\* exit status (non-zero when the engine itself fails).
list_containers(st, running_only, ps_rc) ==
    ParsePs(ps_rc, IF ps_rc = 0 THEN PodmanPs(st, list_containers_cmd(running_only)) ELSE <<>>)

\* The loop of find_container_by_name: the first listed container of the name.
FirstNamed(containers, name) ==
    LET hits == {i \in 1..Len(containers) : containers[i].name = name}
    IN  IF hits = {} THEN None
        ELSE Some(containers[CHOOSE i \in hits : \A j \in hits : i <= j])

find_container_by_name(st, name, ps_rc) ==
    FirstNamed(list_containers(st, FALSE, ps_rc), name)

\* remove_container stopping the container instead of removing it.
remove_container_stops(st, name) ==
    LET hit == {c \in st : c.name = name}
    IN  IF hit = {} THEN [store |-> st, returncode |-> 1]
        ELSE [store |-> (st \ hit) \cup {[c EXCEPT !.state = "exited"] : c \in hit}, returncode |-> 0]

\* podman rm name: a running container is not removed.
remove_container(st, name) ==
    LET hit == {c \in st : c.name = name}
    IN  IF hit = {} THEN [store |-> st, returncode |-> 1]
        ELSE IF \E c \in hit : c.state = "running" THEN [store |-> st, returncode |-> 2]
        ELSE [store |-> st \ hit, returncode |-> 0]

\* podman stop name
stop_container(st, name) ==
    LET hit == {c \in st : c.name = name}
    IN  IF hit = {} THEN [store |-> st, returncode |-> 125]
        ELSE [store |-> (st \ hit) \cup {[c EXCEPT !.state = IF @ = "running" THEN "exited" ELSE @] : c \in hit},
              returncode |-> 0]

\* run_container_cmd without its --name argument.
run_container_cmd_unnamed(folder_path, image, detach, name, mount_target, no_internet, only_claude, only_dev) ==
    [replace      |-> TRUE,
     network_none |-> no_internet,
     detach       |-> detach,
     name         |-> None,
     userns       |-> "keep-id",
     privileged   |-> TRUE,
     labels       |-> <<<<LABEL_MANAGED, StrTrue>>, <<LABEL_MOUNTED_PATH, folder_path>>>>,
     volume       |-> <<folder_path, mount_target>>,
     workdir      |-> mount_target,
     image        |-> image,
     publish      |-> <<>>,
     command      |-> IF only_claude \/ only_dev
                      THEN [sh     |-> TRUE,
                            script |-> IF only_dev THEN "dev_only" ELSE "claude_only",
                            exec   |-> IF detach THEN "sleep infinity" ELSE "bash"]
                      ELSE [sh     |-> FALSE,
                            script |-> "none",
                            exec   |-> IF detach THEN "sleep infinity" ELSE "bash"]]

\* run_container_cmd taking each restrictive tier's script for the other's.
run_container_cmd_swapped(folder_path, image, detach, name, mount_target, no_internet, only_claude, only_dev) ==
    [run_container_cmd_unnamed(folder_path, image, detach, name, mount_target,
                               no_internet, only_claude, only_dev)
        EXCEPT !.name = Some(IF name = None THEN generate_container_name(folder_path) ELSE name[1]),
               !.command.script = CASE @ = "dev_only" -> "claude_only"
                                    [] @ = "claude_only" -> "dev_only"
                                    [] OTHER -> @]

\* The command line run_container builds.
run_container_cmd(folder_path, image, detach, name, mount_target, no_internet, only_claude, only_dev) ==
    [replace      |-> TRUE,
     network_none |-> no_internet,
     detach       |-> detach,
     name         |-> Some(IF name = None THEN generate_container_name(folder_path) ELSE name[1]),
     userns       |-> "keep-id",
     privileged   |-> TRUE,
     labels       |-> <<<<LABEL_MANAGED, StrTrue>>, <<LABEL_MOUNTED_PATH, folder_path>>>>,
     volume       |-> <<folder_path, mount_target>>,
     workdir      |-> mount_target,
     image        |-> image,
     publish      |-> <<>>,
     command      |-> IF only_claude \/ only_dev
                      THEN [sh     |-> TRUE,
                            script |-> IF only_dev THEN "dev_only" ELSE "claude_only",
                            exec   |-> IF detach THEN "sleep infinity" ELSE "bash"]
                      ELSE [sh     |-> FALSE,
                            script |-> "none",
                            exec   |-> IF detach THEN "sleep infinity" ELSE "bash"]]

\* PodmanRun replacing a container of the same name in place, under its old id.
PodmanRunInPlace(st, cmd, id, outcome) ==
    LET name  == IF cmd.name = None THEN EngineAutoName(id) ELSE cmd.name[1]
        clash == {c \in st : c.name = name}
        newid == IF clash = {} THEN id ELSE (CHOOSE c \in clash : TRUE).id
        new   == [id     |-> newid,
                  name   |-> name,
                  state  |-> IF outcome = "ok" THEN "running" ELSE "created",
                  labels |-> cmd.labels]
    IN  IF outcome = "refused"
        THEN [store |-> st, returncode |-> 125, stdout |-> <<>>]
        ELSE [store      |-> (st \ clash) \cup {new},
              returncode |-> IF outcome = "ok" THEN 0 ELSE 126,
              stdout     |-> IF outcome = "ok" THEN FullId(newid) \o <<"\n">> ELSE <<>>]

\* The engine's `run` of a command line: outcome "ok" starts the container;
\* "refused" fails before anything is created (image missing, engine down);
\* "not_started" creates the container, and then fails to start it.
PodmanRun(st, cmd, id, outcome) ==
    LET name  == IF cmd.name = None THEN EngineAutoName(id) ELSE cmd.name[1]
        clash == {c \in st : c.name = name}
        new   == [id     |-> id,
                  name   |-> name,
                  state  |-> IF outcome = "ok" THEN "running" ELSE "created",
                  labels |-> cmd.labels]
    IN  IF outcome = "refused" \/ (clash # {} /\ ~cmd.replace)
        THEN [store |-> st, returncode |-> 125, stdout |-> <<>>]
        ELSE [store      |-> (st \ clash) \cup {new},
              returncode |-> IF outcome = "ok" THEN 0 ELSE 126,
              stdout     |-> IF outcome = "ok" THEN FullId(id) \o <<"\n">> ELSE <<>>]

\* podman exec -it name bash: needs a running container.
attach_container(st, name) ==
    [returncode |-> IF \E c \in st : c.name = name /\ c.state = "running" THEN 0 ELSE 125]

\* ------------------------------------------------------------- the run command

\* The options of one `run` invocation, after typer has parsed and resolved them.
RunOptions ==
    [folder       : Folders,
     name         : NameOptions,
     detach       : BOOLEAN,
     force        : BOOLEAN,
     no_internet  : BOOLEAN,
     only_claude  : BOOLEAN,
     only_dev     : BOOLEAN,
     engine       : EngineOptions,
     expose_ports : BOOLEAN]

\* The invocations of the model: every lifecycle option with the network and
\* engine options at their defaults; every network option on one detached
\* target; every engine on one detached target.
Invocations ==
    {o \in RunOptions :
        \/ o.engine = "podman" /\ ~o.no_internet /\ ~o.only_claude /\ ~o.only_dev /\ o.expose_ports
        \/ o.folder = FolderA /\ o.name = None /\ o.force /\ o.detach /\ o.engine = "podman"
        \/ o.folder = FolderA /\ o.name = None /\ o.force /\ o.detach
              /\ ~o.no_internet /\ ~o.only_claude /\ ~o.only_dev /\ o.expose_ports}

DefaultOptions ==
    [folder |-> FolderA, name |-> None, detach |-> FALSE, force |-> FALSE,
     no_internet |-> FALSE, only_claude |-> FALSE, only_dev |-> FALSE,
     engine |-> "podman", expose_ports |-> TRUE]

\* The terminals a `run` invocation can be typed in.
Procs == {1, 2}

VARIABLES
    store,      \* the engine's containers
    nextId,     \* the id the engine gives the next container
    madeFor,    \* history: <<id, name, folder>> of each container in the store that a run invocation created
    pc,         \* where each terminal's run invocation stands
    opts,       \* its options (expose_ports as the code rewrites it)
    name,       \* its target name
    existing,   \* what find_container_by_name returned to it
    answer,     \* what the user answered to its confirmation prompt
    calls,      \* the engine calls it has issued, with their exit status
    out,        \* what it has printed
    exitcode,   \* its exit code, once pc is "done"
    shell,      \* the id of the container whose interactive shell it sits in
    argv,       \* history: its options as they were typed
    runcmd,     \* history: the `run` command line it handed to the engine
    fn,         \* the adapter function a direct caller called last
    arg,        \* its arguments
    ret         \* what it returned

vars == <<store, nextId, madeFor, pc, opts, name, existing, answer, calls, out, exitcode, shell,
          argv, runcmd, fn, arg, ret>>

\* The record of a direct caller's last adapter call.
lastCall == <<fn, arg, ret>>

\* A container of another tool, with no managed-marker label; stop and rm of
\* it lead to the empty store.
ForeignContainer == [id |-> 0, name |-> NameBox, state |-> "running", labels |-> <<>>]

Init ==
    /\ store = {ForeignContainer}
    /\ nextId = 1
    /\ madeFor = {}
    /\ pc = [p \in Procs |-> "idle"]
    /\ opts = [p \in Procs |-> DefaultOptions]
    /\ name = [p \in Procs |-> <<>>]
    /\ existing = [p \in Procs |-> None]
    /\ answer = [p \in Procs |-> "none"]
    /\ calls = [p \in Procs |-> <<>>]
    /\ out = [p \in Procs |-> <<>>]
    /\ exitcode = [p \in Procs |-> 0]
    /\ shell = [p \in Procs |-> 0]
    /\ argv = [p \in Procs |-> DefaultOptions]
    /\ runcmd = [p \in Procs |-> None]
    /\ fn = "none"
    /\ arg = <<>>
    /\ ret = <<>>

\* The history entries of the containers still in the store.
Live(made, st) == {t \in made : \E c \in st : c.id = t[1]}

Msg(m, a) == [msg |-> m, arg |-> a]

Call(op, rc) == [op |-> op, engine |-> "podman", rc |-> rc]

\* run_validate letting two network flags through.
run_validate_lenient(o) ==
    IF o.engine \notin {"podman", "docker"} THEN "bad_engine"
    ELSE LET network_flags == (IF o.no_internet THEN 1 ELSE 0)
                                + (IF o.only_claude THEN 1 ELSE 0)
                                + (IF o.only_dev THEN 1 ELSE 0)
         IN  IF network_flags > 2 THEN "exclusive" ELSE "ok"

\* The configuration checks at the head of run.
run_validate(o) ==
    IF o.engine \notin {"podman", "docker"} THEN "bad_engine"
    ELSE LET network_flags == (IF o.no_internet THEN 1 ELSE 0)
                                + (IF o.only_claude THEN 1 ELSE 0)
                                + (IF o.only_dev THEN 1 ELSE 0)
         IN  IF network_flags > 1 THEN "exclusive" ELSE "ok"

\* run_ports warning of the conflict and leaving port exposure on.
run_ports_left_on(expose_ports, no_internet) ==
    [expose_ports |-> expose_ports, warn |-> expose_ports /\ no_internet]

\* The port-exposure rewrite of run: expose_ports as it is from there on, and
\* whether the warning is printed.
run_ports(expose_ports, no_internet) ==
    IF expose_ports /\ no_internet
    THEN [expose_ports |-> FALSE, warn |-> TRUE]
    ELSE [expose_ports |-> expose_ports, warn |-> FALSE]

\* run up to the first engine call: validation, the port-exposure rewrite,
\* the target name.
RunStart(p, o) ==
    /\ pc[p] = "idle"
    /\ LET verdict == run_validate(o)
           rewrite == run_ports(o.expose_ports, o.no_internet)
       IN  /\ opts' = [opts EXCEPT ![p] =
                          IF verdict = "ok"
                          THEN [o EXCEPT !.expose_ports = rewrite.expose_ports] ELSE o]
           /\ out' = [out EXCEPT ![p] =
                          IF verdict # "ok" THEN <<Msg("error", <<>>)>>
                          ELSE IF rewrite.warn THEN <<Msg("warning_ports", <<>>)>>
                          ELSE <<>>]
           /\ name' = [name EXCEPT ![p] =
                          IF verdict # "ok" THEN <<>>
                          ELSE IF o.name = None THEN generate_container_name(o.folder)
                          ELSE o.name[1]]
           /\ pc' = [pc EXCEPT ![p] = IF verdict = "ok" THEN "find" ELSE "done"]
           /\ exitcode' = [exitcode EXCEPT ![p] = IF verdict = "ok" THEN 0 ELSE 1]
    /\ existing' = [existing EXCEPT ![p] = None]
    /\ calls' = [calls EXCEPT ![p] = <<>>]
    /\ shell' = [shell EXCEPT ![p] = 0]
    /\ argv' = [argv EXCEPT ![p] = o]
    /\ runcmd' = [runcmd EXCEPT ![p] = None]
    /\ UNCHANGED <<store, nextId, madeFor, answer, lastCall>>

\* is_active without its "Up" test.
is_active_running_only(status) ==
    StrIn(<<"r", "u", "n", "n", "i", "n", "g">>, StrLower(status))

\* The status test of run: is the found container running?
is_active(status) ==
    \/ StrIn(<<"U", "p">>, status)
    \/ StrIn(<<"r", "u", "n", "n", "i", "n", "g">>, StrLower(status))

\* run_branch attaching to a running container even when detach is set.
run_branch_always_attach(found, folder, detach, force) ==
    IF found = None THEN [next |-> "create", out |-> <<>>]
    ELSE LET c == found[1]
         IN  IF StrIn(<<"U", "p">>, c.status)
             THEN [next |-> "attach",
                   out  |-> IF c.mounted_path # <<>> /\ c.mounted_path # folder
                            THEN <<Msg("warning_mounted", c.mounted_path)>>
                            ELSE <<Msg("found_running", <<>>)>>]
             ELSE [next |-> IF force THEN "remove" ELSE "confirm",
                   out  |-> <<Msg("found_stopped", <<>>)>>]

\* run_branch warning of any recorded mounted path, the requested one too.
run_branch_warns_always(found, folder, detach, force) ==
    IF found = None THEN [next |-> "create", out |-> <<>>]
    ELSE LET c == found[1]
         IN  IF is_active(c.status)
             THEN [next |-> IF detach THEN "report" ELSE "attach",
                   out  |-> IF c.mounted_path # <<>>
                            THEN <<Msg("warning_mounted", c.mounted_path)>>
                            ELSE <<Msg("found_running", <<>>)>>]
             ELSE [next |-> IF force THEN "remove" ELSE "confirm",
                   out  |-> <<Msg("found_stopped", <<>>)>>]

\* What run does with the container it found (or did not find).
run_branch(found, folder, detach, force) ==
    IF found = None THEN [next |-> "create", out |-> <<>>]
    ELSE LET c == found[1]
         IN  IF is_active(c.status)
             THEN [next |-> IF detach THEN "report" ELSE "attach",
                   out  |-> IF c.mounted_path # <<>> /\ c.mounted_path # folder
                            THEN <<Msg("warning_mounted", c.mounted_path)>>
                            ELSE <<Msg("found_running", <<>>)>>]
             ELSE [next |-> IF force THEN "remove" ELSE "confirm",
                   out  |-> <<Msg("found_stopped", <<>>)>>]

\* run_container_first_call going to the engine's run at once.
run_container_first_call_no_pull(detach) == "run"

\* The first engine call of run_container: the pull when detached.
run_container_first_call(detach) == IF detach THEN "pull" ELSE "run"

\* find_container_by_name and the branch on its result.
RunFind(p) ==
    /\ pc[p] = "find"
    /\ \E ps_rc \in {0, 125} :
         LET found == find_container_by_name(store, name[p], ps_rc)
             b     == run_branch(found, opts[p].folder, opts[p].detach, opts[p].force)
         IN  /\ existing' = [existing EXCEPT ![p] = found]
             /\ calls' = [calls EXCEPT ![p] = Append(@, Call("ps", ps_rc))]
             /\ out' = [out EXCEPT ![p] =
                            @ \o b.out \o
                            (IF b.next = "report"
                             THEN <<Msg("already_running", <<>>), Msg("container_id", found[1].id)>>
                             ELSE <<>>)]
             /\ pc' = [pc EXCEPT ![p] =
                            CASE b.next = "create" -> run_container_first_call(opts[p].detach)
                              [] b.next = "report" -> "done"
                              [] OTHER -> b.next]
    /\ UNCHANGED <<store, nextId, madeFor, opts, name, answer, exitcode, shell, argv, runcmd, lastCall>>

\* attach_container on the running container; its exit status is not read.
RunAttach(p) ==
    /\ pc[p] = "attach"
    /\ calls' = [calls EXCEPT ![p] = Append(@, Call("exec", attach_container(store, name[p]).returncode))]
    /\ pc' = [pc EXCEPT ![p] = "done"]
    /\ UNCHANGED <<store, nextId, madeFor, opts, name, existing, answer, out, exitcode, shell, argv, runcmd, lastCall>>

\* run_on_response going on to remove whatever the answer.
run_on_response_remove(response) ==
    [next |-> "remove", exit |-> 0, out |-> <<>>]

\* What run does with the answer to "Remove it and create a new one?".
run_on_response(response) ==
    IF ~response THEN [next |-> "done", exit |-> 0, out |-> <<Msg("cancelled", <<>>)>>]
    ELSE [next |-> "remove", exit |-> 0, out |-> <<>>]

RunConfirm(p) ==
    /\ pc[p] = "confirm"
    /\ \E response \in BOOLEAN :
         LET r == run_on_response(response)
         IN  /\ answer' = [answer EXCEPT ![p] = IF response THEN "yes" ELSE "no"]
             /\ pc' = [pc EXCEPT ![p] = r.next]
             /\ exitcode' = [exitcode EXCEPT ![p] = r.exit]
             /\ out' = [out EXCEPT ![p] = @ \o r.out]
    /\ UNCHANGED <<store, nextId, madeFor, opts, name, existing, calls, shell, argv, runcmd, lastCall>>

\* run_on_removed not reading the exit status.
run_on_removed_unchecked(returncode, detach) ==
    [next |-> IF detach THEN "pull" ELSE "run", exit |-> 0, out |-> <<>>]

\* What run does with the exit status of remove_container.
run_on_removed(returncode, detach) ==
    IF returncode # 0 THEN [next |-> "done", exit |-> 1, out |-> <<Msg("error", <<>>)>>]
    ELSE [next |-> IF detach THEN "pull" ELSE "run", exit |-> 0, out |-> <<>>]

RunRemove(p) ==
    /\ pc[p] = "remove"
    /\ LET res == remove_container(store, name[p])
           r   == run_on_removed(res.returncode, opts[p].detach)
       IN  /\ store' = res.store
           /\ madeFor' = Live(madeFor, res.store)
           /\ calls' = [calls EXCEPT ![p] = Append(@, Call("rm", res.returncode))]
           /\ pc' = [pc EXCEPT ![p] = r.next]
           /\ exitcode' = [exitcode EXCEPT ![p] = r.exit]
           /\ out' = [out EXCEPT ![p] = @ \o r.out]
    /\ UNCHANGED <<nextId, opts, name, existing, answer, shell, argv, runcmd, lastCall>>

\* run_on_pulled not reading the exit status.
run_on_pulled_unchecked(returncode) ==
    [next |-> "run", exit |-> 0, out |-> <<>>]

\* What detached run_container and run do with the exit status of pull_image.
\* run_on_pulled pulling again after a failed pull.
run_on_pulled_retry(returncode) ==
    IF returncode # 0 THEN [next |-> "pull", exit |-> 0, out |-> <<>>]
    ELSE [next |-> "run", exit |-> 0, out |-> <<>>]

run_on_pulled(returncode) ==
    IF returncode # 0 THEN [next |-> "done", exit |-> 1, out |-> <<Msg("error", <<>>)>>]
    ELSE [next |-> "run", exit |-> 0, out |-> <<>>]

\* run_container, detached: pull_image first.
RunPull(p) ==
    /\ pc[p] = "pull"
    /\ \E returncode \in {0, 125} :
         LET r == run_on_pulled(returncode)
         IN  /\ calls' = [calls EXCEPT ![p] = Append(@, Call("pull", returncode))]
             /\ pc' = [pc EXCEPT ![p] = r.next]
             /\ exitcode' = [exitcode EXCEPT ![p] = r.exit]
             /\ out' = [out EXCEPT ![p] = @ \o r.out]
    /\ UNCHANGED <<store, nextId, madeFor, opts, name, existing, answer, shell, argv, runcmd, lastCall>>

\* What run does with the result of run_container's engine call: detached,
\* the exit status decides; interactive, it is not read.
run_on_created(detach, returncode, stdout) ==
    IF detach
    THEN IF returncode = 0
         THEN [next |-> "done", exit |-> 0, out |-> <<Msg("started", Take(StrStrip(stdout), 12))>>]
         ELSE [next |-> "done", exit |-> 1, out |-> <<Msg("error", <<>>)>>]
    ELSE [next |-> IF returncode = 0 THEN "in_shell" ELSE "done", exit |-> 0, out |-> <<>>]

\* run_container's engine call: the container is created.
RunCreate(p) ==
    /\ pc[p] = "run"
    /\ nextId <= MaxIds
    /\ \E outcome \in {"ok", "refused", "not_started"} :
         LET o   == opts[p]
             cmd == run_container_cmd(o.folder, DEFAULT_IMAGE, o.detach, Some(name[p]),
                                      MOUNT_TARGET, o.no_internet, o.only_claude, o.only_dev)
             res == PodmanRun(store, cmd, nextId, outcome)
             made == \E c \in res.store : c.id = nextId
             r   == run_on_created(o.detach, res.returncode, res.stdout)
         IN  /\ store' = res.store
             /\ nextId' = IF made THEN nextId + 1 ELSE nextId
             /\ madeFor' = Live(IF made THEN madeFor \cup {<<nextId, name[p], o.folder>>} ELSE madeFor, res.store)
             /\ calls' = [calls EXCEPT ![p] = Append(@, Call("run", res.returncode))]
             /\ pc' = [pc EXCEPT ![p] = r.next]
             /\ exitcode' = [exitcode EXCEPT ![p] = r.exit]
             /\ out' = [out EXCEPT ![p] = @ \o r.out]
             /\ shell' = [shell EXCEPT ![p] = IF r.next = "in_shell" THEN nextId ELSE 0]
             /\ runcmd' = [runcmd EXCEPT ![p] = Some(cmd)]
    /\ UNCHANGED <<opts, name, existing, answer, argv, lastCall>>

\* The interactive shell ends: its container stops, run_container returns.
RunShellExit(p) ==
    /\ pc[p] = "in_shell"
    /\ store' = {IF c.id = shell[p] /\ c.state = "running" THEN [c EXCEPT !.state = "exited"] ELSE c : c \in store}
    /\ pc' = [pc EXCEPT ![p] = "done"]
    /\ shell' = [shell EXCEPT ![p] = 0]
    /\ UNCHANGED <<nextId, madeFor, opts, name, existing, answer, calls, out, exitcode, argv, runcmd, lastCall>>

\* The invocation's process ends, and its locals with it.
RunReturn(p) ==
    /\ pc[p] = "done"
    /\ pc' = [pc EXCEPT ![p] = "idle"]
    /\ opts' = [opts EXCEPT ![p] = DefaultOptions]
    /\ name' = [name EXCEPT ![p] = <<>>]
    /\ existing' = [existing EXCEPT ![p] = None]
    /\ answer' = [answer EXCEPT ![p] = "none"]
    /\ calls' = [calls EXCEPT ![p] = <<>>]
    /\ out' = [out EXCEPT ![p] = <<>>]
    /\ exitcode' = [exitcode EXCEPT ![p] = 0]
    /\ argv' = [argv EXCEPT ![p] = DefaultOptions]
    /\ runcmd' = [runcmd EXCEPT ![p] = None]
    /\ UNCHANGED <<store, nextId, madeFor, shell, lastCall>>

\* ------------------------------------------------------- the other commands
\* (a stop or rm typed while a finished invocation has not yet returned is
\* taken once it has: the two orders end in the same state)

\* sandboxer stop <container>, on a container of the store
StopCmd(n) ==
    /\ \A p \in Procs : pc[p] # "done"
    /\ store' = stop_container(store, n).store
    /\ UNCHANGED <<nextId, madeFor, pc, opts, name, existing, answer, calls, out, exitcode, shell, argv, runcmd, lastCall>>

\* sandboxer rm <container>, on a container of the store
RmCmd(n) ==
    /\ \A p \in Procs : pc[p] # "done"
    /\ store' = remove_container(store, n).store
    /\ madeFor' = Live(madeFor, store')
    /\ UNCHANGED <<nextId, pc, opts, name, existing, answer, calls, out, exitcode, shell, argv, runcmd, lastCall>>

\* ------------------------------------------------------------ specification

\* One terminal runs `run` invocations one after another, while stop and rm
\* are typed in another.
Next ==
    \/ \E o \in Invocations : RunStart(1, o)
    \/ RunReturn(1)
    \/ RunFind(1)
    \/ RunAttach(1)
    \/ RunConfirm(1)
    \/ RunRemove(1)
    \/ RunPull(1)
    \/ RunCreate(1)
    \/ RunShellExit(1)
    \/ \E c \in store : StopCmd(c.name)
    \/ \E c \in store : RmCmd(c.name)

Spec == Init /\ [][Next]_vars

\* ----------------------------------------------------- generated names only

\* The terminal of Spec, no invocation of which passes --name.
AutoNameNext ==
    \/ \E o \in {i \in Invocations : i.name = None} : RunStart(1, o)
    \/ RunReturn(1)
    \/ RunFind(1)
    \/ RunAttach(1)
    \/ RunConfirm(1)
    \/ RunRemove(1)
    \/ RunPull(1)
    \/ RunCreate(1)
    \/ RunShellExit(1)
    \/ \E c \in store : StopCmd(c.name)
    \/ \E c \in store : RmCmd(c.name)

AutoNameSpec == Init /\ [][AutoNameNext]_vars

\* ------------------------------------------------------- two terminals

\* `run` on one folder under its generated name, with the network and engine
\* options at their defaults.
SameTarget ==
    {o \in Invocations :
        /\ o.folder = FolderA /\ o.name = None /\ o.engine = "podman"
        /\ ~o.no_internet /\ ~o.only_claude /\ ~o.only_dev /\ o.expose_ports}

\* Two terminals run such invocations at the same time: the engine calls of
\* the two interleave.
ConcurrentNext ==
    \E p \in Procs :
        \/ \E o \in SameTarget : RunStart(p, o)
        \/ RunReturn(p)
        \/ RunFind(p)
        \/ RunAttach(p)
        \/ RunConfirm(p)
        \/ RunRemove(p)
        \/ RunPull(p)
        \/ RunCreate(p)
        \/ RunShellExit(p)

ConcurrentSpec == Init /\ [][ConcurrentNext]_vars

\* ------------------------------------------- the adapter, called directly
\* (as tests/test_integration.py calls it: no run command in between)

\* The variables of the run command's processes.
procVars == <<pc, opts, name, existing, answer, calls, out, exitcode, shell, argv, runcmd>>

\* run_container(folder_path, detach=True): the image is pulled, and the
\* command line is handed to the engine if the pull succeeded.
CallRunContainer(folder_path) ==
    /\ nextId <= MaxIds
    /\ \E pull_rc \in {0, 125}, outcome \in {"ok", "refused", "not_started"} :
         LET cmd  == run_container_cmd(folder_path, DEFAULT_IMAGE, TRUE, None,
                                       MOUNT_TARGET, FALSE, FALSE, FALSE)
             r    == IF pull_rc # 0
                     THEN [store |-> store, returncode |-> pull_rc, stdout |-> <<>>]
                     ELSE PodmanRun(store, cmd, nextId, outcome)
             made == \E c \in r.store : c.id = nextId
         IN  /\ store' = r.store
             /\ nextId' = IF made THEN nextId + 1 ELSE nextId
             /\ madeFor' = Live(IF made THEN madeFor \cup {<<nextId, cmd.name[1], folder_path>>}
                                 ELSE madeFor, r.store)
             /\ fn' = "run_container"
             /\ arg' = [folder_path |-> folder_path]
             /\ ret' = [returncode |-> r.returncode, stdout |-> r.stdout]
    /\ UNCHANGED procVars

\* stop_container(name)
CallStopContainer(n) ==
    /\ LET r == stop_container(store, n)
       IN  /\ store' = r.store
           /\ ret' = [returncode |-> r.returncode]
    /\ fn' = "stop_container"
    /\ arg' = [name |-> n]
    /\ UNCHANGED <<nextId, madeFor, procVars>>

\* remove_container(name)
CallRemoveContainer(n) ==
    /\ LET r == remove_container(store, n)
       IN  /\ store' = r.store
           /\ madeFor' = Live(madeFor, r.store)
           /\ ret' = [returncode |-> r.returncode]
    /\ fn' = "remove_container"
    /\ arg' = [name |-> n]
    /\ UNCHANGED <<nextId, procVars>>

\* list_containers(running_only)
CallListContainers(running_only) ==
    /\ fn' = "list_containers"
    /\ arg' = [running_only |-> running_only]
    /\ ret' = list_containers(store, running_only, 0)
    /\ UNCHANGED <<store, nextId, madeFor, procVars>>

\* The names a direct caller passes: those of the store, and one of nothing.
CallNames == {c.name : c \in store} \cup {generate_container_name(FolderA)}

AdapterNext ==
    \/ \E f \in Folders : CallRunContainer(f)
    \/ \E n \in CallNames : CallStopContainer(n)
    \/ \E n \in CallNames : CallRemoveContainer(n)
    \/ \E r \in BOOLEAN : CallListContainers(r)

AdapterSpec == Init /\ [][AdapterNext]_vars

\* ------------------------------------------------------------------ claims

\* The container carries the managed-marker label.
Managed(c) == HasLabel(c, LABEL_MANAGED, StrTrue)

\* The engine calls of the kinds ops that invocation p has issued.
Issued(p, ops) == {i \in 1..Len(calls[p]) : calls[p][i].op \in ops}

\* A status that reads as active: it contains "Up", or "running" in any case.
ActiveStatus(status) ==
    \/ \E i \in 1..Len(status) - 1 : SubSeq(status, i, i + 1) = <<"U", "p">>
    \/ LET low == StrLower(status)
       IN  \E i \in 1..Len(low) - 6 : SubSeq(low, i, i + 6) = <<"r", "u", "n", "n", "i", "n", "g">>

\* Invocation p found a container with its target name, and it was active.
FoundActive(p) == existing[p] # None /\ ActiveStatus(existing[p][1].status)

\* Invocation p found a container with its target name, and it was not active.
FoundStopped(p) == existing[p] # None /\ ~ActiveStatus(existing[p][1].status)

Mismatch(p) == existing[p][1].mounted_path # <<>> /\ existing[p][1].mounted_path # opts[p].folder

ConfigError(o) ==
    \/ o.engine # "podman" /\ o.engine # "docker"
    \/ o.no_internet /\ o.only_claude
    \/ o.no_internet /\ o.only_dev
    \/ o.only_claude /\ o.only_dev

\* C7: an invocation with a configuration error has ended with exit code 1
\* without an engine call, and its first step leaves the store as it is.
C7_ConfigErrorBeforeEngine ==
    [][\A p \in Procs : ConfigError(opts'[p]) =>
         /\ pc'[p] = "done"
         /\ exitcode'[p] = 1
         /\ calls'[p] = <<>>
         /\ pc[p] = "idle" => store' = store]_vars

\* Two network flags were given, with a container in the store.
C7_Witness ==
    /\ pc[1] = "done"
    /\ opts[1].engine = "podman"
    /\ opts[1].only_claude /\ opts[1].only_dev
    /\ exitcode[1] = 1
    /\ store # {}

EntryOf(e, c) == e.name = c.name /\ e.id = Take(FullId(c.id), 12)

\* C9: every container a run invocation created carries the managed-marker
\* label and the mounted-path label of the folder it was created for, and
\* every entry list_containers or find_container_by_name returns is a
\* container that carries the managed-marker label.
C9_ManagedLabels ==
    /\ \A t \in madeFor : \A c \in store : c.id = t[1] =>
          /\ HasLabel(c, LABEL_MANAGED, StrTrue)
          /\ HasLabel(c, LABEL_MOUNTED_PATH, t[3])
    /\ LET running == list_containers(store, TRUE, 0)
           listed  == list_containers(store, FALSE, 0)
       IN  /\ \A i \in 1..Len(running) : \E c \in store : Managed(c) /\ EntryOf(running[i], c)
           /\ \A i \in 1..Len(listed) : \E c \in store : Managed(c) /\ EntryOf(listed[i], c)
           /\ \A c \in store :
                 LET found == FirstNamed(listed, c.name)
                 IN  found # None => \E d \in store : Managed(d) /\ EntryOf(found[1], d)

\* The store holds a container of another tool beside one that run created,
\* and the list shows the latter alone.
C9_Witness ==
    /\ \E c \in store : ~Managed(c)
    /\ madeFor # {}
    /\ Len(list_containers(store, FALSE, 0)) = 1

\* The value of the container's mounted-path label, "" when it has none.
MountedPathLabel(c) ==
    LET hits == {i \in 1..Len(c.labels) : c.labels[i][1] = LABEL_MOUNTED_PATH}
    IN  IF hits = {} THEN <<>> ELSE c.labels[CHOOSE i \in hits : TRUE][2]

MaxLines == 2

\* Lines of `ps` output, each as its "|"-separated fields and, for its
\* labels field, the labels it was formatted from (None: not a label map).
PsSample(id, n, state, labels, more) ==
    [fields |-> <<id, n, EngineStatus(state)>>
                    \o (IF labels = None THEN <<<<"<", "n", "o", "n", "e", ">">>>>
                        ELSE <<FormatLabels(labels[1])>>)
                    \o more,
     labels |-> labels]

PsSamples ==
    {PsSample(FullId(1), generate_container_name(FolderA), "running",
              Some(<<<<LABEL_MANAGED, StrTrue>>, <<LABEL_MOUNTED_PATH, FolderA>>>>), <<>>),
     PsSample(FullId(2), generate_container_name(FolderB), "running",
              Some(<<<<LABEL_MANAGED, StrTrue>>, <<LABEL_MOUNTED_PATH, FolderB>>>>), <<>>),
     PsSample(<<"a", "b", "c">>, NameBox, "exited",
              Some(<<<<LABEL_MANAGED, StrTrue>>>>), <<>>),
     PsSample(FullId(2), NameBox, "created",
              Some(<<<<LABEL_MOUNTED_PATH, <<"/", "w", ":", "x">>>>, <<<<"z">>, <<"1">>>>>>), <<>>),
     PsSample(FullId(2), NameBox, "running", Some(<<>>), <<>>),
     PsSample(FullId(1), NameBox, "running", None, <<>>),
     PsSample(FullId(1), NameBox, "exited",
              Some(<<<<LABEL_MANAGED, StrTrue>>, <<LABEL_MOUNTED_PATH, FolderA>>>>), <<<<"x">>>>),
     [fields |-> <<FullId(1), NameBox, EngineStatus("running")>>, labels |-> None],
     [fields |-> <<<<"E", "r", "r", "o", "r">>>>, labels |-> None],
     [fields |-> <<<<>>>>, labels |-> None]}

\* The engine outputs of the model: up to MaxLines of the lines above.
PsBatches == UNION {[1..n -> PsSamples] : n \in 0..MaxLines}

\* The text of a batch: its lines, each ended by a newline.
PsText(batch) ==
    StrJoin([i \in 1..Len(batch) |-> StrJoin(batch[i].fields, <<"|">>) \o <<"\n">>], <<>>)

\* generate_container_name(folder_path)
CallGenerateContainerName(folder_path) ==
    /\ fn = "none"
    /\ fn' = "generate_container_name"
    /\ arg' = [folder_path |-> folder_path]
    /\ ret' = generate_container_name(folder_path)
    /\ UNCHANGED <<store, nextId, madeFor, procVars>>

\* list_containers, the engine answering with the batch's text.
CallParsePs(batch) ==
    /\ fn = "none"
    /\ fn' = "ParsePs"
    /\ arg' = [batch |-> batch]
    /\ ret' = ParsePs(0, PsText(batch))
    /\ UNCHANGED <<store, nextId, madeFor, procVars>>

\* --------------------------------------------------------- firewall scripts

\* One `iptables -A chain match [-d dst] -j target`; dst 0 is no -d.
Rule(chain, match, target) == [chain |-> chain, match |-> match, dst |-> 0, target |-> target]

\* One statement of a script: an iptables command, a resolution into the
\* script's address variable, a loop over it, a loop over domains, or the
\* writing of the settings file.
Stmt(op, rule, domains) == [op |-> op, rule |-> rule, domains |-> domains]

NoRule == Rule("", "", "")

\* $ALLOWED_DOMAINS without the API host.
ALLOWED_DOMAINS_packages_only ==
    <<"pypi.org",
      "files.pythonhosted.org",
      "registry.npmjs.org",
      "npmjs.com",
      "proxy.golang.org",
      "sum.golang.org",
      "storage.googleapis.com",
      "github.com",
      "api.github.com",
      "objects.githubusercontent.com",
      "raw.githubusercontent.com",
      "astral.sh",
      "bun.sh">>

\* The words of $ALLOWED_DOMAINS.
ALLOWED_DOMAINS ==
    <<"api.anthropic.com",
      "pypi.org",
      "files.pythonhosted.org",
      "registry.npmjs.org",
      "npmjs.com",
      "proxy.golang.org",
      "sum.golang.org",
      "storage.googleapis.com",
      "github.com",
      "api.github.com",
      "objects.githubusercontent.com",
      "raw.githubusercontent.com",
      "astral.sh",
      "bun.sh">>

_generate_dev_only_firewall_script ==
    <<Stmt("iptables", Rule("OUTPUT", "-o lo", "ACCEPT"), <<>>),
      Stmt("iptables", Rule("INPUT", "-i lo", "ACCEPT"), <<>>),
      Stmt("iptables", Rule("OUTPUT", "-m state --state ESTABLISHED,RELATED", "ACCEPT"), <<>>),
      Stmt("iptables", Rule("OUTPUT", "-p udp --dport 53", "ACCEPT"), <<>>),
      Stmt("iptables", Rule("OUTPUT", "-p tcp --dport 53", "ACCEPT"), <<>>),
      Stmt("for_domain", Rule("OUTPUT", "-p tcp --dport 443", "ACCEPT"), ALLOWED_DOMAINS),
      Stmt("iptables", Rule("OUTPUT", "", "DROP"), <<>>),
      Stmt("settings", NoRule, <<>>)>>

\* The claude-only script with its DROP ahead of the HTTPS loop.
claude_only_script_drop_first ==
    <<Stmt("resolve", NoRule, <<"api.anthropic.com">>),
      Stmt("iptables", Rule("OUTPUT", "-o lo", "ACCEPT"), <<>>),
      Stmt("iptables", Rule("INPUT", "-i lo", "ACCEPT"), <<>>),
      Stmt("iptables", Rule("OUTPUT", "-m state --state ESTABLISHED,RELATED", "ACCEPT"), <<>>),
      Stmt("iptables", Rule("OUTPUT", "-p udp --dport 53", "ACCEPT"), <<>>),
      Stmt("iptables", Rule("OUTPUT", "-p tcp --dport 53", "ACCEPT"), <<>>),
      Stmt("iptables", Rule("OUTPUT", "", "DROP"), <<>>),
      Stmt("for_ip", Rule("OUTPUT", "-p tcp --dport 443", "ACCEPT"), <<>>),
      Stmt("settings", NoRule, <<>>)>>

_generate_claude_only_firewall_script ==
    <<Stmt("resolve", NoRule, <<"api.anthropic.com">>),
      Stmt("iptables", Rule("OUTPUT", "-o lo", "ACCEPT"), <<>>),
      Stmt("iptables", Rule("INPUT", "-i lo", "ACCEPT"), <<>>),
      Stmt("iptables", Rule("OUTPUT", "-m state --state ESTABLISHED,RELATED", "ACCEPT"), <<>>),
      Stmt("iptables", Rule("OUTPUT", "-p udp --dport 53", "ACCEPT"), <<>>),
      Stmt("iptables", Rule("OUTPUT", "-p tcp --dport 53", "ACCEPT"), <<>>),
      Stmt("for_ip", Rule("OUTPUT", "-p tcp --dport 443", "ACCEPT"), <<>>),
      Stmt("iptables", Rule("OUTPUT", "", "DROP"), <<>>),
      Stmt("settings", NoRule, <<>>)>>

\* The number of IPv4 addresses there are to resolve to.
MaxAddrs == 2

RECURSIVE Ascending(_)
\* sort -u: the addresses in ascending order, each once.
Ascending(S) == IF S = {} THEN <<>>
                ELSE LET m == CHOOSE x \in S : \A y \in S : x <= y
                     IN  <<m>> \o Ascending(S \ {m})

\* getent ahostsv4 domain | awk '{print $1}' | sort -u; nothing when the
\* domain does not resolve.
Getent(dns, domain) == Ascending(dns[domain])

\* for ip in ...: one rule per address.
RulesTo(rule, ips) == [i \in 1..Len(ips) |-> [rule EXCEPT !.dst = ips[i]]]

RECURSIVE RulesToDomains(_, _, _)
\* for domain in ...: the address loop on each domain's resolution.
RulesToDomains(rule, domains, dns) ==
    IF domains = <<>> THEN <<>>
    ELSE RulesTo(rule, Getent(dns, Head(domains))) \o RulesToDomains(rule, Tail(domains), dns)

RECURSIVE RunScript(_, _, _)
\* The rules a script appends, in order, when the shell runs it under a
\* resolver; ips is the script's address variable.
RunScript(script, dns, ips) ==
    IF script = <<>> THEN <<>>
    ELSE LET st == Head(script)
         IN  CASE st.op = "resolve"    -> RunScript(Tail(script), dns, Getent(dns, st.domains[1]))
               [] st.op = "iptables"   -> <<st.rule>> \o RunScript(Tail(script), dns, ips)
               [] st.op = "for_ip"     -> RulesTo(st.rule, ips) \o RunScript(Tail(script), dns, ips)
               [] st.op = "for_domain" -> RulesToDomains(st.rule, st.domains, dns)
                                              \o RunScript(Tail(script), dns, ips)
               [] OTHER                -> RunScript(Tail(script), dns, ips)

\* The resolvers of the model: the API host resolves to one set of addresses,
\* every other host to another; either may be empty.
Resolvers ==
    {[d \in {ALLOWED_DOMAINS[i] : i \in 1..Len(ALLOWED_DOMAINS)} \cup {"api.anthropic.com"} |->
         IF d = "api.anthropic.com" THEN a ELSE b] :
       a \in SUBSET (1..MaxAddrs), b \in SUBSET (1..MaxAddrs)}

\* A container of either restrictive tier starts: its script runs.
RunFirewallScripts(dns) ==
    /\ fn = "none"
    /\ fn' = "firewall_script"
    /\ arg' = [dns |-> dns]
    /\ ret' = [only_claude |-> RunScript(_generate_claude_only_firewall_script, dns, <<>>),
               only_dev    |-> RunScript(_generate_dev_only_firewall_script, dns, <<>>)]
    /\ UNCHANGED <<store, nextId, madeFor, procVars>>

\* The container's entry command, statement by statement: the tier's script
\* and `exec` of the main process under `sh -c`, or the main process alone.
final_cmd(command) ==
    (IF ~command.sh THEN <<>>
     ELSE IF command.script = "dev_only" THEN _generate_dev_only_firewall_script
     ELSE _generate_claude_only_firewall_script)
        \o <<Stmt("exec", NoRule, <<command.exec>>)>>

\* run_container up to its engine call: the command line, and the entry
\* command in it.
CallRunContainerCmd(folder_path, detach, no_internet, only_claude, only_dev) ==
    /\ fn = "none"
    /\ fn' = "run_container_cmd"
    /\ arg' = [folder_path |-> folder_path, detach |-> detach, no_internet |-> no_internet,
               only_claude |-> only_claude, only_dev |-> only_dev]
    /\ LET cmd == run_container_cmd(folder_path, DEFAULT_IMAGE, detach, None, MOUNT_TARGET,
                                     no_internet, only_claude, only_dev)
       IN  ret' = [cmd |-> cmd, entry |-> final_cmd(cmd.command)]
    /\ UNCHANGED <<store, nextId, madeFor, procVars>>

\* The function returns to its caller, which may call another.
FunctionReturn ==
    /\ fn # "none"
    /\ fn' = "none"
    /\ arg' = <<>>
    /\ ret' = <<>>
    /\ UNCHANGED <<store, nextId, madeFor, procVars>>

FunctionNext ==
    \/ FunctionReturn
    \/ \E f \in NameFolders : CallGenerateContainerName(f)
    \/ \E detach, no_internet, only_claude, only_dev \in BOOLEAN :
          CallRunContainerCmd(FolderA, detach, no_internet, only_claude, only_dev)
    \/ \E b \in PsBatches : CallParsePs(b)
    \/ \E dns \in Resolvers : RunFirewallScripts(dns)

FunctionSpec == Init /\ [][FunctionNext]_vars

\* ---------------------------------------------------------------------- C11

\* The invocation was typed with --expose-ports and --no-internet, and passed
\* the configuration checks.
PortsUnderNoInternet(p) ==
    /\ pc[p] # "idle"
    /\ argv[p].expose_ports /\ argv[p].no_internet
    /\ run_validate(argv[p]) = "ok"

Shows(listing, n) == \E i \in 1..Len(listing) : listing[i].name = n

\* The path has none of the characters the list format is built from.
Plain(path) == \A i \in 1..Len(path) : path[i] \notin {" ", "|", "\n"}

\* The running listing has the container of the folder, mounted path and all.
ReadBack(folder_path) ==
    LET listing == list_containers(store, TRUE, 0)
    IN  \E i \in 1..Len(listing) :
           /\ listing[i].name = generate_container_name(folder_path)
           /\ listing[i].mounted_path = folder_path

\* C12 as stated: after a successful detached run_container(folder), the
\* running listing has a container named generate_container_name(folder)
\* whose mounted_path is the folder, for every folder.
C12_MountedPathReadBack ==
    (fn = "run_container" /\ ret.returncode = 0) => ReadBack(arg.folder_path)

\* C12 as amended: the same, for every folder whose path has no space, "|" or
\* newline in it.
C12_PlainMountedPathReadBack ==
    (fn = "run_container" /\ ret.returncode = 0 /\ Plain(arg.folder_path))
        => ReadBack(arg.folder_path)

\* A detached run_container of a plain folder has just succeeded.
C12_Witness ==
    /\ fn = "run_container" /\ ret.returncode = 0
    /\ Plain(arg.folder_path)
    /\ \E c \in store : c.name = generate_container_name(arg.folder_path) /\ c.state = "running"

\* ---------------------------------------------------------------------- C13

\* The step is a successful call of the function on the name.
Called(f, n) == fn' = f /\ arg'.name = n /\ ret'.returncode = 0

\* The step is a run_container that targets the name.
Reran(n) == fn' = "run_container" /\ generate_container_name(arg'.folder_path) = n

\* C13: a successful stop_container of a running managed container takes it
\* out of the running listing and leaves it in the listing of all; a stopped
\* managed container stays in the listing of all through every step but its
\* removal (by remove_container, or by a run_container that replaces it).
C13_StoppedStaysListed ==
    [][\A c \in store : Managed(c) =>
         /\ (c.state = "running" /\ Called("stop_container", c.name)) =>
               /\ ~Shows(list_containers(store', TRUE, 0), c.name)
               /\ \E i \in 1..Len(list_containers(store', FALSE, 0)) :
                      EntryOf(list_containers(store', FALSE, 0)[i], c)
         /\ (c.state = "exited" /\ store' # store
                /\ ~Called("remove_container", c.name) /\ ~Reran(c.name)) =>
               \E i \in 1..Len(list_containers(store', FALSE, 0)) :
                      EntryOf(list_containers(store', FALSE, 0)[i], c)]_vars

\* stop_container has just succeeded on a managed container, which is stopped.
C13_Witness ==
    /\ fn = "stop_container" /\ ret.returncode = 0
    /\ \E c \in store : c.name = arg.name /\ Managed(c) /\ c.state = "exited"

\* ---------------------------------------------------------------------- C14

\* The names containers get in the model.
TargetNames == {generate_container_name(f) : f \in Folders} \cup {NameBox}

\* C14: a successful remove_container of a stopped managed container takes
\* its name out of the listing of all, and a name comes into the listing of
\* all only by a run_container that targets it.
C14_RemovedStaysAbsent ==
    [][/\ \A c \in store :
            (Managed(c) /\ c.state # "running" /\ Called("remove_container", c.name))
                => ~Shows(list_containers(store', FALSE, 0), c.name)
       /\ \A n \in TargetNames :
            (/\ store' # store
             /\ ~Shows(list_containers(store, FALSE, 0), n)
             /\ Shows(list_containers(store', FALSE, 0), n))
                => Reran(n)]_vars

\* A container was removed after a stop, and its name is in no listing.
C14_Witness ==
    /\ fn = "remove_container" /\ ret.returncode = 0
    /\ arg.name = generate_container_name(FolderA)
    /\ nextId > 1
    /\ ~Shows(list_containers(store, FALSE, 0), arg.name)

\* ---------------------------------------------------------------------- C15

HexDigits == {"0", "1", "2", "3", "4", "5", "6", "7", "8", "9", "a", "b", "c", "d", "e", "f"}

\* C15: the name generate_container_name returns for a path is "sandboxer-",
\* the path's last component, "-", and 8 hexadecimal digits, which are its
\* last "-"-separated part.
C15_NameForm ==
    fn = "generate_container_name" =>
        LET parts  == StrSplit(ret, "-")
            suffix == parts[Len(parts)]
            base   == SubSeq(ret, 11, Len(ret) - 9)
        IN  /\ Len(suffix) = 8
            /\ \A i \in 1..8 : suffix[i] \in HexDigits
            /\ ret = <<"s", "a", "n", "d", "b", "o", "x", "e", "r", "-">> \o base \o <<"-">> \o suffix
            /\ EndsWith(arg.folder_path, <<"/">> \o base)
            /\ ~StrIn(<<"/">>, base)

\* The name of a folder whose last component has a hyphen of its own.
C15_Witness ==
    /\ fn = "generate_container_name"
    /\ arg.folder_path = FolderC
    /\ Len(StrSplit(ret, "-")) = 4

\* ---------------------------------------------------------------------- C16

\* The mounted-path value among the labels a line was formatted from.
LabelValue(labels) ==
    IF labels = None THEN <<>>
    ELSE LET hits == {i \in 1..Len(labels[1]) : labels[1][i][1] = LABEL_MOUNTED_PATH}
         IN  IF hits = {} THEN <<>> ELSE labels[1][CHOOSE i \in hits : TRUE][2]

\* The lines of a batch that have four fields or more.
FourFields(batch) == SelectSeq(batch, LAMBDA l : Len(l.fields) >= 4)

\* C16 as stated: list_containers returns one Container per line of four
\* fields or more, in the order of the lines: its id is the first 12
\* characters of the first field, its name and status are the second and
\* third fields, and its mounted_path is the mounted-path value of the labels,
\* "" when there is none or the field is no label map; the other lines are
\* dropped.
C16_OneContainerPerLine ==
    fn = "ParsePs" =>
        LET kept == FourFields(arg.batch)
        IN  /\ Len(ret) = Len(kept)
            /\ \A k \in 1..Len(kept) :
                  /\ ret[k].id = SubSeq(kept[k].fields[1], 1, Min(12, Len(kept[k].fields[1])))
                  /\ ret[k].name = kept[k].fields[2]
                  /\ ret[k].status = kept[k].fields[3]
                  /\ ret[k].mounted_path = LabelValue(kept[k].labels)

\* C16 as amended: the same, the mounted_path being the mounted-path value of
\* the labels when that value has no space in it.
C16_OneContainerPerPlainLine ==
    fn = "ParsePs" =>
        LET kept == FourFields(arg.batch)
        IN  /\ Len(ret) = Len(kept)
            /\ \A k \in 1..Len(kept) :
                  /\ ret[k].id = SubSeq(kept[k].fields[1], 1, Min(12, Len(kept[k].fields[1])))
                  /\ ret[k].name = kept[k].fields[2]
                  /\ ret[k].status = kept[k].fields[3]
                  /\ Plain(LabelValue(kept[k].labels)) =>
                         ret[k].mounted_path = LabelValue(kept[k].labels)

\* A batch with a short line before a line that has a mounted path.
C16_Witness ==
    /\ fn = "ParsePs"
    /\ Len(arg.batch) = 2
    /\ Len(arg.batch[1].fields) < 4
    /\ Len(ret) = 1
    /\ ret[1].mounted_path = FolderA

\* ---------------------------------------------------------------------- C17

DropAll == Rule("OUTPUT", "", "DROP")

HttpsTo(ip) == [Rule("OUTPUT", "-p tcp --dport 443", "ACCEPT") EXCEPT !.dst = ip]

\* The rule is among those before the last.
Before(rules, r) == \E i \in 1..(Len(rules) - 1) : rules[i] = r

\* C17: under every resolver, the last rule either tier's script appends is
\* the DROP of all outbound traffic, and every rule before it is an ACCEPT:
\* loopback, established and related, DNS over UDP and over TCP, and one
\* HTTPS accept per address the API host resolves to are among them.
C17_DropIsLast ==
    fn = "firewall_script" =>
        \A tier \in {"only_claude", "only_dev"} :
            LET rules == ret[tier]
            IN  /\ Len(rules) >= 1
                /\ rules[Len(rules)] = DropAll
                /\ \A i \in 1..(Len(rules) - 1) : rules[i].target = "ACCEPT"
                /\ Before(rules, Rule("OUTPUT", "-o lo", "ACCEPT"))
                /\ Before(rules, Rule("OUTPUT", "-m state --state ESTABLISHED,RELATED", "ACCEPT"))
                /\ Before(rules, Rule("OUTPUT", "-p udp --dport 53", "ACCEPT"))
                /\ Before(rules, Rule("OUTPUT", "-p tcp --dport 53", "ACCEPT"))
                /\ \A ip \in arg.dns["api.anthropic.com"] : Before(rules, HttpsTo(ip))

\* The API host resolves to two addresses and the other hosts to one.
C17_Witness ==
    /\ fn = "firewall_script"
    /\ arg.dns["api.anthropic.com"] = {1, 2}
    /\ arg.dns["github.com"] = {1}
    /\ Len(ret.only_claude) = 8
    /\ Len(ret.only_dev) > 8

\* ---------------------------------------------------------------------- C18

\* The domains a script resolves for its HTTPS accepts.
ScriptDomains(script) ==
    UNION {{script[i].domains[j] : j \in 1..Len(script[i].domains)} :
              i \in {k \in 1..Len(script) : script[k].op \in {"resolve", "for_domain"}}}

\* The addresses a chain of rules accepts HTTPS to.
Accepted(rules) ==
    {rules[i].dst : i \in {k \in 1..Len(rules) :
        /\ rules[k].dst # 0 /\ rules[k] = HttpsTo(rules[k].dst)
        /\ \A j \in 1..(k - 1) : rules[j] # DropAll}}

\* The package-registry and source-hosting hosts.
EnumeratedHosts ==
    {"pypi.org", "files.pythonhosted.org", "registry.npmjs.org", "npmjs.com",
     "proxy.golang.org", "sum.golang.org", "storage.googleapis.com",
     "github.com", "api.github.com", "objects.githubusercontent.com",
     "raw.githubusercontent.com", "astral.sh", "bun.sh"}

\* C18: the only-claude script allows the API host alone, the only-dev script
\* allows it too and every package-registry and source-hosting host, and
\* under every resolver the addresses accepted under only-claude are accepted
\* under only-dev.
C18_DevAllowsMore ==
    /\ ScriptDomains(_generate_claude_only_firewall_script) = {"api.anthropic.com"}
    /\ ScriptDomains(_generate_claude_only_firewall_script) \subseteq ScriptDomains(_generate_dev_only_firewall_script)
    /\ EnumeratedHosts \subseteq ScriptDomains(_generate_dev_only_firewall_script)
    /\ fn = "firewall_script" => Accepted(ret.only_claude) \subseteq Accepted(ret.only_dev)

\* The API host resolves where the other hosts resolve elsewhere.
C18_Witness ==
    /\ fn = "firewall_script"
    /\ Accepted(ret.only_claude) = {1}
    /\ Accepted(ret.only_dev) = {1, 2}

\* ---------------------------------------------------------------------- C19

\* The invocation looked for its target name and found no container.
NotFound(p) == Issued(p, {"ps"}) # {} /\ existing[p] = None

ScriptThenExec(entry, script, main) ==
    /\ entry = script \o <<Stmt("exec", NoRule, <<main>>)>>
    /\ \E d \in 1..(Len(entry) - 1) : entry[d].op = "iptables" /\ entry[d].rule = DropAll
    /\ \A i \in 1..(Len(entry) - 1) : entry[i].op # "exec"

\* C20: with only-claude or only-dev alone, the entry command is that tier's
\* script followed by exec of the main process (sleep infinity detached,
\* bash interactive) and --network=none is not passed; with no-internet
\* alone, --network=none is passed and the entry command is the main process
\* with no script; with none of the three, neither.
C20_TierDecidesEntryCommand ==
    fn = "run_container_cmd" =>
        LET main == IF arg.detach THEN "sleep infinity" ELSE "bash"
            bare == <<Stmt("exec", NoRule, <<main>>)>>
        IN  /\ (arg.only_claude /\ ~arg.only_dev /\ ~arg.no_internet) =>
                  /\ ret.cmd.command.sh /\ ~ret.cmd.network_none
                  /\ ScriptThenExec(ret.entry, _generate_claude_only_firewall_script, main)
            /\ (arg.only_dev /\ ~arg.only_claude /\ ~arg.no_internet) =>
                  /\ ret.cmd.command.sh /\ ~ret.cmd.network_none
                  /\ ScriptThenExec(ret.entry, _generate_dev_only_firewall_script, main)
            /\ (arg.no_internet /\ ~arg.only_claude /\ ~arg.only_dev) =>
                  /\ ret.cmd.network_none /\ ~ret.cmd.command.sh
                  /\ ret.entry = bare
            /\ (~arg.no_internet /\ ~arg.only_claude /\ ~arg.only_dev) =>
                  /\ ~ret.cmd.network_none /\ ~ret.cmd.command.sh
                  /\ ret.entry = bare

\* The command line of an interactive only-dev container.
C20_Witness ==
    /\ fn = "run_container_cmd"
    /\ arg.only_dev /\ ~arg.only_claude /\ ~arg.no_internet /\ ~arg.detach
    /\ ret.entry[Len(ret.entry)] = Stmt("exec", NoRule, <<"bash">>)
    /\ Len(ret.entry) = 9

\* ---------------------------------------------------------------------- C21

EngineOps == {"ps", "exec", "rm", "pull", "run"}

NamedAfterLabel ==
    \A c \in store : Managed(c) =>
        /\ MountedPathLabel(c) \in Folders
        /\ c.name = generate_container_name(MountedPathLabel(c))

\* The invocation has printed the mounted-path mismatch warning.
Warned(p) == \E i \in 1..Len(out[p]) : out[p][i].msg = "warning_mounted"

====
